---- MODULE Spec2Model ----
(***************************************************************************)
(* Model of the appointment-booking backend (src/src/index.js and the      *)
(* Prisma schema): the Availability and Booking tables, the SMTP outbox    *)
(* and the four HTTP handlers GET/POST /availability, GET/POST /bookings.  *)
(* Every `await` of a handler is a point where other requests may run, so  *)
(* each handler is one action per awaited call; the synchronous code       *)
(* before and after the call belongs to the same action.                   *)
(*                                                                         *)
(* JavaScript strings that the code takes apart (the "HH:MM" times) are    *)
(* sequences of one-character strings; strings that are only compared or   *)
(* handed to a library (names, e-mail addresses, date strings) are TLA+    *)
(* strings.  A JSON object is a record; an absent property is a field that *)
(* is not in the record's DOMAIN.                                          *)
(*                                                                         *)
(* Three specifications run the same handlers: Spec feeds the server       *)
(* well-formed requests for two days, SpecInputs feeds it requests with    *)
(* absent, empty and unparsable properties, and SpecExpand starts from a   *)
(* table holding any interval list of a set and runs GET /availability.    *)
(* A run accepts MaxRequests requests, at most NumClients of them in       *)
(* flight together; a finished request stays visible on its connection     *)
(* until the next request is accepted there.                               *)
(***************************************************************************)
EXTENDS Integers, Sequences, FiniteSets

VARIABLES
  served,             \* requests accepted so far
  availability,       \* table "Availability": set of rows [id, date, timeSlots]
  availabilityIdSeq,  \* SERIAL sequence of Availability.id
  bookings,           \* table "Booking": set of rows [id, name, email, date, time]
  bookingIdSeq,       \* SERIAL sequence of Booking.id
  outbox,             \* mails accepted by the SMTP transport, in order
  req                 \* per connection: the request being handled and its response

vars == <<served, availability, availabilityIdSeq, bookings, bookingIdSeq, outbox, req>>

----------------------------------------------------------------------------
(* Bounds *)

NumClients == 2    \* requests that can be in flight at the same time
MaxRequests == 3   \* requests the server accepts in one run
MaxIntervals == 2  \* longest interval list drawn for the expansion check

Clients == 1..NumClients

----------------------------------------------------------------------------
(* Strings *)

Digits == <<"0", "1", "2", "3", "4", "5", "6", "7", "8", "9">>

DigitVal(c) == (CHOOSE i \in 1..10 : Digits[i] = c) - 1

\* s.split(":") : the parts of s between colons (always at least one part)
RECURSIVE SplitFrom(_, _, _, _)
SplitFrom(s, i, cur, parts) ==
  IF i > Len(s) THEN Append(parts, cur)
  ELSE IF s[i] = ":" THEN SplitFrom(s, i + 1, << >>, Append(parts, cur))
  ELSE SplitFrom(s, i + 1, Append(cur, s[i]), parts)

Split(s) == SplitFrom(s, 1, << >>, << >>)

\* Number(s) for a string of decimal digits; Number("") is 0.  The strings
\* of the model hold digits and colons only, so NaN does not arise.
RECURSIVE NumberFrom(_, _, _)
NumberFrom(s, i, acc) ==
  IF i > Len(s) THEN acc ELSE NumberFrom(s, i + 1, acc * 10 + DigitVal(s[i]))

Number(s) == NumberFrom(s, 1, 0)

\* n.toString() for an integer n >= 0
RECURSIVE ToString(_)
ToString(n) ==
  IF n < 10 THEN <<Digits[n + 1]>>
  ELSE Append(ToString(n \div 10), Digits[(n % 10) + 1])

\* s.padStart(2, "0")
PadStart(s) == IF Len(s) >= 2 THEN s ELSE [i \in 1..(2 - Len(s)) |-> "0"] \o s

----------------------------------------------------------------------------
(* Values used by the requests *)

t0900 == <<"0", "9", ":", "0", "0">>
t0930 == <<"0", "9", ":", "3", "0">>
t1000 == <<"1", "0", ":", "0", "0">>
t1100 == <<"1", "1", ":", "0", "0">>
t1145 == <<"1", "1", ":", "4", "5">>
t1200 == <<"1", "2", ":", "0", "0">>
t1400 == <<"1", "4", ":", "0", "0">>
t1500 == <<"1", "5", ":", "0", "0">>
t1600 == <<"1", "6", ":", "0", "0">>
t1700 == <<"1", "7", ":", "0", "0">>
t1800 == <<"1", "8", ":", "0", "0">>

EmptyObject == [k \in {} |-> ""]

\* new Date(s): the time value of the Date, as the epoch day of its UTC
\* midnight; InvalidDate stands for the NaN time value of an unparsable string
InvalidDate == -1

NewDate(s) ==
  CASE s = "2024-01-01" -> 19723
    [] s = "2024-01-01T00:00:00.000Z" -> 19723
    [] s = "2024-01-02" -> 19724
    [] OTHER -> InvalidDate

\* JSON objects with optional properties
Property(k, V) == {[x \in {k} |-> v] : v \in V}

Optional(k, V) == {EmptyObject} \cup Property(k, V)

Merge(a, b) ==
  [k \in DOMAIN a \cup DOMAIN b |-> IF k \in DOMAIN a THEN a[k] ELSE b[k]]

Without(body, k) == [x \in DOMAIN body \ {k} |-> body[x]]

Names == {"Ana"}

Emails == {"ana@example.com"}

\* The requests of the server's runs: two days, the first with two interval
\* lists and two times, the second with one of each
DateStrings == {"2024-01-01", "2024-01-02"}

SlotLists ==
  { <<[from |-> t0900, to |-> t1100]>>,
    <<[from |-> t1400, to |-> t1600], [from |-> t0930, to |-> t1145]>> }

Times == {t0900, t1800}

\* req.query of GET /availability
AvailabilityQueries ==
  {Merge(d, v) : d \in Property("date", DateStrings),
                 v \in Optional("view", {"admin"})}

\* req.body of POST /availability
AvailabilityBodies ==
  {[date |-> "2024-01-01", timeSlots |-> s] : s \in SlotLists}
    \cup {[date |-> "2024-01-02", timeSlots |-> <<[from |-> t0900, to |-> t1100]>>]}

\* req.body of POST /bookings
BookingBodies ==
  {[name |-> n, email |-> e, date |-> "2024-01-01", time |-> t] :
     n \in Names, e \in Emails, t \in Times}
    \cup {[name |-> n, email |-> e, date |-> "2024-01-02", time |-> t0900] :
            n \in Names, e \in Emails}

\* The requests of the input check: every way of leaving a property out or
\* empty, a second spelling of a day, a string that is no date, an empty
\* interval list and a list with a slot without `to`
InputDateStrings == {"", "2024-01-01", "2024-01-01T00:00:00.000Z", "domani"}

InputSlotLists == {<< >>, <<[from |-> t0900]>>}

InputAvailabilityQueries ==
  {Merge(d, v) : d \in Optional("date", InputDateStrings),
                 v \in Optional("view", {"admin"})}

InputAvailabilityBodies ==
  {Merge(d, s) : d \in Optional("date", {"2024-01-01", "2024-01-01T00:00:00.000Z"}),
                 s \in Optional("timeSlots", InputSlotLists)}

InputBookingBodies ==
  LET body == [name |-> "Ana", email |-> "ana@example.com",
               date |-> "2024-01-01", time |-> t0900]
  IN {[body EXCEPT !.date = d] : d \in InputDateStrings}
       \cup {Without(body, k) : k \in DOMAIN body}
       \cup {[body EXCEPT ![k] = ""] : k \in {"name", "email"}}
       \cup {[body EXCEPT !.time = << >>], EmptyObject, [name |-> "", time |-> t0900]}

----------------------------------------------------------------------------
(* Responses *)

NoResponse == [status |-> 0]

\* res.json(body): status 200 unless res.status(code) was called first
Json(code, body) == [status |-> code, json |-> body]

Error(code, text) == Json(code, [error |-> text])

----------------------------------------------------------------------------
(* Storage: the Prisma client over the two tables *)

Null == [isNull |-> TRUE]

\* variant: the where clause is dropped, any row is found
findUniqueAnyDay(date) ==
  IF availability # {} THEN CHOOSE row \in availability : TRUE ELSE Null

\* prisma.availability.findUnique({ where: { date } })
findUnique(date) ==
  IF \E row \in availability : row.date = date
  THEN CHOOSE row \in availability : row.date = date
  ELSE Null

\* variant: the row is always created
upsertInsert(date, timeSlots) ==
  availability \cup
    {[id |-> availabilityIdSeq, date |-> date, timeSlots |-> timeSlots]}

\* variant: an update appends the submitted intervals to the stored ones
upsertAppend(date, timeSlots) ==
  IF \E row \in availability : row.date = date
  THEN {IF row.date = date THEN [row EXCEPT !.timeSlots = @ \o timeSlots] ELSE row :
          row \in availability}
  ELSE availability \cup
         {[id |-> availabilityIdSeq, date |-> date, timeSlots |-> timeSlots]}

\* prisma.availability.upsert({ where: { date }, update: {timeSlots}, create: {date, timeSlots} })
\* the table after the call
upsert(date, timeSlots) ==
  IF \E row \in availability : row.date = date
  THEN {IF row.date = date THEN [row EXCEPT !.timeSlots = timeSlots] ELSE row :
          row \in availability}
  ELSE availability \cup
         {[id |-> availabilityIdSeq, date |-> date, timeSlots |-> timeSlots]}

\* prisma.booking.findMany({ where: { date } })
findMany(date) == {b \in bookings : b.date = date}

\* variant: the lookup compares the day after the requested one
findFirstOtherDay(date, time) ==
  IF \E b \in bookings : b.date = date + 1 /\ b.time = time
  THEN CHOOSE b \in bookings : b.date = date + 1 /\ b.time = time
  ELSE Null

\* prisma.booking.findFirst({ where: { date, time } })
findFirst(date, time) ==
  IF \E b \in bookings : b.date = date /\ b.time = time
  THEN CHOOSE b \in bookings : b.date = date /\ b.time = time
  ELSE Null

\* variant: a row of the same (date, time) is returned instead of a new one
createOrReuse(data) ==
  IF \E b \in bookings : b.date = data.date /\ b.time = data.time
  THEN CHOOSE b \in bookings : b.date = data.date /\ b.time = data.time
  ELSE [id |-> bookingIdSeq, name |-> data.name, email |-> data.email,
        date |-> data.date, time |-> data.time]

\* prisma.booking.create({ data }): the new row (createdAt is not modelled);
\* the schema puts no unique constraint on (date, time)
create(data) ==
  [id |-> bookingIdSeq, name |-> data.name, email |-> data.email,
   date |-> data.date, time |-> data.time]

----------------------------------------------------------------------------
(* GET /availability *)

DefaultTimeSlots ==
  <<[from |-> t0900, to |-> t1200], [from |-> t1400, to |-> t1700]>>

\* variant: the loop runs up to and including toHour
RECURSIVE ForHourInclusive(_, _, _)
ForHourInclusive(hour, toHour, times) ==
  IF hour <= toHour
  THEN ForHourInclusive(hour + 1, toHour,
                        Append(times, PadStart(ToString(hour)) \o <<":", "0", "0">>))
  ELSE times

\* for (let hour = fromHour; hour < toHour; hour++) times.push(...)
RECURSIVE ForHour(_, _, _)
ForHour(hour, toHour, times) ==
  IF hour < toHour
  THEN ForHour(hour + 1, toHour,
               Append(times, PadStart(ToString(hour)) \o <<":", "0", "0">>))
  ELSE times

\* variant: a to with minutes past the hour still offers that hour
RECURSIVE ForEachCeil(_, _, _)
ForEachCeil(timeSlots, i, times) ==
  IF i > Len(timeSlots) THEN times
  ELSE LET slot == timeSlots[i]
           fromHour == Number(Split(slot.from)[1])
           toHour == Number(Split(slot.to)[1])
                       + (IF Number(Split(slot.to)[2]) > 0 THEN 1 ELSE 0)
       IN ForEachCeil(timeSlots, i + 1, ForHour(fromHour, toHour, times))

\* timeSlots.forEach((slot) => ...)
RECURSIVE ForEach(_, _, _)
ForEach(timeSlots, i, times) ==
  IF i > Len(timeSlots) THEN times
  ELSE LET slot == timeSlots[i]
           fromHour == Number(Split(slot.from)[1])
           toHour == Number(Split(slot.to)[1])
       IN ForEach(timeSlots, i + 1, ForHour(fromHour, toHour, times))

expandTimeSlots(timeSlots) == ForEach(timeSlots, 1, << >>)

\* slot.from.split or slot.to.split of a slot without that property throws
ExpandThrows(timeSlots) ==
  \E i \in 1..Len(timeSlots) :
    "from" \notin DOMAIN timeSlots[i] \/ "to" \notin DOMAIN timeSlots[i]

\* variant: the negation of the filter is lost
FilterReservedOnly(allTimes, reservedTimes) ==
  LET Taken(time) == time \in reservedTimes
  IN SelectSeq(allTimes, Taken)

\* allTimes.filter((time) => !reservedTimes.includes(time))
FilterReserved(allTimes, reservedTimes) ==
  LET Free(time) == time \notin reservedTimes
  IN SelectSeq(allTimes, Free)

\* variant: the admin view falls back to the default intervals
adminTimeSlotsDefault(found) ==
  IF found # Null THEN found.timeSlots ELSE DefaultTimeSlots

\* availability ? availability.timeSlots : []
adminTimeSlots(found) == IF found # Null THEN found.timeSlots ELSE << >>

Free(r) == req[r].pc \in {"idle", "done"}

\* a request is accepted on the first connection that is not handling one
Idle(r) ==
  /\ served < MaxRequests
  /\ Free(r)
  /\ \A q \in 1..(r - 1) : ~Free(q)

\* thrown: the error the catch block logged with console.error, "" when none
Request(kind, in, pc, local, calls, res) ==
  [kind |-> kind, in |-> in, pc |-> pc, local |-> local, calls |-> calls,
   res |-> res, thrown |-> ""]

\* catch (error) { console.error(error); res.status(500).json(...) }
Catch(request, error, response) ==
  [request EXCEPT !.pc = "done", !.res = response, !.thrown = error]

\* variant: only an absent property counts, the empty string passes
MissingAbsentOnly(body, k, empty) == k \notin DOMAIN body

\* !body.k : the property is absent or the empty string
Missing(body, k, empty) == k \notin DOMAIN body \/ body[k] = empty

\* variant: the rejection is sent with the status of the catch block
BadRequestAs500(text) == Error(500, text)

\* res.status(400).json({ error: text })
BadRequest(text) == Error(400, text)

AvailabilityError == Error(500, "Errore nel recupero della disponibilità")

\* the request arrives: the date check, then the call of findUnique
GetAvailability(r, queries) ==
  /\ Idle(r)
  /\ served' = served + 1
  /\ \E query \in queries :
       req' = [req EXCEPT ![r] =
         IF Missing(query, "date", "")
         THEN Request("GET /availability", query, "done", EmptyObject, << >>,
                      BadRequest("Data richiesta"))
         ELSE Request("GET /availability", query, "findUnique", EmptyObject,
                      <<"availability.findUnique">>, NoResponse)]
  /\ UNCHANGED <<availability, availabilityIdSeq, bookings, bookingIdSeq, outbox>>

\* variant: the booking view stores the default intervals of a day without a row
GetAvailabilityFindUniquePersist(r) ==
  /\ UNCHANGED served
  /\ req[r].kind = "GET /availability"
  /\ req[r].pc = "findUnique"
  /\ LET query == req[r].in
         date == NewDate(query.date)
         found == findUnique(date)
         timeSlots == IF found # Null THEN found.timeSlots ELSE DefaultTimeSlots
         admin == "view" \in DOMAIN query /\ query.view = "admin"
     IN \E ok \in BOOLEAN :
          /\ req' = [req EXCEPT ![r] =
               IF ~ok \/ date = InvalidDate
               THEN Catch(@, "storage", AvailabilityError)
               ELSE IF admin
               THEN [@ EXCEPT !.pc = "done",
                              !.res = Json(200, [timeSlots |-> adminTimeSlots(found)])]
               ELSE IF ExpandThrows(timeSlots)
               THEN Catch(@, "TypeError", AvailabilityError)
               ELSE [@ EXCEPT !.pc = "findMany",
                              !.local = [allTimes |-> expandTimeSlots(timeSlots)],
                              !.calls = Append(@, "booking.findMany")]]
          /\ IF ok /\ date # InvalidDate /\ ~admin /\ found = Null
             THEN /\ availability' = upsert(date, DefaultTimeSlots)
                  /\ availabilityIdSeq' = availabilityIdSeq + 1
             ELSE UNCHANGED <<availability, availabilityIdSeq>>
  /\ UNCHANGED <<bookings, bookingIdSeq, outbox>>

\* findUnique settles: the admin answer, or the expansion and the call of findMany
GetAvailabilityFindUnique(r) ==
  /\ UNCHANGED served
  /\ req[r].kind = "GET /availability"
  /\ req[r].pc = "findUnique"
  /\ LET query == req[r].in
         date == NewDate(query.date)
         found == findUnique(date)
         timeSlots == IF found # Null THEN found.timeSlots ELSE DefaultTimeSlots
     IN \E ok \in BOOLEAN :
          req' = [req EXCEPT ![r] =
            IF ~ok \/ date = InvalidDate
            THEN Catch(@, "storage", AvailabilityError)
            ELSE IF "view" \in DOMAIN query /\ query.view = "admin"
            THEN [@ EXCEPT !.pc = "done",
                           !.res = Json(200, [timeSlots |-> adminTimeSlots(found)])]
            ELSE IF ExpandThrows(timeSlots)
            THEN Catch(@, "TypeError", AvailabilityError)
            ELSE [@ EXCEPT !.pc = "findMany",
                           !.local = [allTimes |-> expandTimeSlots(timeSlots)],
                           !.calls = Append(@, "booking.findMany")]]
  /\ UNCHANGED <<availability, availabilityIdSeq, bookings, bookingIdSeq, outbox>>

\* findMany settles: the booked times are filtered out
GetAvailabilityFindMany(r) ==
  /\ UNCHANGED served
  /\ req[r].kind = "GET /availability"
  /\ req[r].pc = "findMany"
  /\ LET date == NewDate(req[r].in.date)
         reservedTimes == {b.time : b \in findMany(date)}
         availableTimes == FilterReserved(req[r].local.allTimes, reservedTimes)
     IN \E ok \in BOOLEAN :
          req' = [req EXCEPT ![r] =
            IF ~ok
            THEN Catch(@, "storage", AvailabilityError)
            ELSE [@ EXCEPT !.pc = "done",
                           !.res = Json(200, [availableTimes |-> availableTimes])]]
  /\ UNCHANGED <<availability, availabilityIdSeq, bookings, bookingIdSeq, outbox>>

----------------------------------------------------------------------------
(* POST /availability *)

UpsertError == Error(500, "Errore nell'aggiornamento della disponibilità")

\* the request arrives: the body check, then the call of upsert
PostAvailability(r, bodies) ==
  /\ Idle(r)
  /\ served' = served + 1
  /\ \E body \in bodies :
       req' = [req EXCEPT ![r] =
         IF Missing(body, "date", "") \/ "timeSlots" \notin DOMAIN body
         THEN Request("POST /availability", body, "done", EmptyObject, << >>,
                      BadRequest("Data o timeSlots mancanti"))
         ELSE Request("POST /availability", body, "upsert", EmptyObject,
                      <<"availability.upsert">>, NoResponse)]
  /\ UNCHANGED <<availability, availabilityIdSeq, bookings, bookingIdSeq, outbox>>

\* upsert settles: one write of the row of the date, answered with its timeSlots
PostAvailabilityUpsert(r) ==
  /\ UNCHANGED served
  /\ req[r].kind = "POST /availability"
  /\ req[r].pc = "upsert"
  /\ LET body == req[r].in
         date == NewDate(body.date)
     IN \E ok \in BOOLEAN :
          IF ~ok \/ date = InvalidDate
          THEN /\ req' = [req EXCEPT ![r] = Catch(@, "storage", UpsertError)]
               /\ UNCHANGED <<availability, availabilityIdSeq>>
          ELSE /\ availability' = upsert(date, body.timeSlots)
               /\ availabilityIdSeq' =
                    IF \E row \in availability : row.date = date
                    THEN availabilityIdSeq ELSE availabilityIdSeq + 1
               /\ LET row == CHOOSE x \in availability' : x.date = date
                  IN req' = [req EXCEPT
                       ![r].pc = "done",
                       ![r].res = Json(200, [message |-> "Disponibilità aggiornata",
                                             timeSlots |-> row.timeSlots])]
  /\ UNCHANGED <<bookings, bookingIdSeq, outbox>>

----------------------------------------------------------------------------
(* POST /bookings *)

BookingError == Error(500, "Errore nella creazione della prenotazione")

SlotTaken == BadRequest("Questo orario è già prenotato")

\* the request arrives: the four fields are checked, then findFirst is called
PostBookings(r, bodies) ==
  /\ Idle(r)
  /\ served' = served + 1
  /\ \E body \in bodies :
       req' = [req EXCEPT ![r] =
         IF \/ Missing(body, "name", "") \/ Missing(body, "email", "")
            \/ Missing(body, "date", "") \/ Missing(body, "time", << >>)
         THEN Request("POST /bookings", body, "done", EmptyObject, << >>,
                      BadRequest("Tutti i campi sono obbligatori"))
         ELSE Request("POST /bookings", body, "findFirst", EmptyObject,
                      <<"booking.findFirst">>, NoResponse)]
  /\ UNCHANGED <<availability, availabilityIdSeq, bookings, bookingIdSeq, outbox>>

\* variant: a time outside the hours offered for the day is turned away
PostBookingsFindFirstOffered(r) ==
  /\ UNCHANGED served
  /\ req[r].kind = "POST /bookings"
  /\ req[r].pc = "findFirst"
  /\ LET body == req[r].in
         date == NewDate(body.date)
         existingBooking == findFirst(date, body.time)
         row == findUnique(date)
         offered == expandTimeSlots(IF row # Null THEN row.timeSlots
                                    ELSE DefaultTimeSlots)
     IN \E ok \in BOOLEAN :
          req' = [req EXCEPT ![r] =
            IF ~ok \/ date = InvalidDate
            THEN Catch(@, "storage", BookingError)
            ELSE IF existingBooking # Null
                    \/ \A i \in 1..Len(offered) : offered[i] # body.time
            THEN [@ EXCEPT !.pc = "done", !.res = SlotTaken]
            ELSE [@ EXCEPT !.pc = "create",
                           !.calls = Append(@, "booking.create")]]
  /\ UNCHANGED <<availability, availabilityIdSeq, bookings, bookingIdSeq, outbox>>

\* findFirst settles: a conflict answer, or the call of create
PostBookingsFindFirst(r) ==
  /\ UNCHANGED served
  /\ req[r].kind = "POST /bookings"
  /\ req[r].pc = "findFirst"
  /\ LET body == req[r].in
         date == NewDate(body.date)
         existingBooking == findFirst(date, body.time)
     IN \E ok \in BOOLEAN :
          req' = [req EXCEPT ![r] =
            IF ~ok \/ date = InvalidDate
            THEN Catch(@, "storage", BookingError)
            ELSE IF existingBooking # Null
            THEN [@ EXCEPT !.pc = "done", !.res = SlotTaken]
            ELSE [@ EXCEPT !.pc = "create",
                           !.calls = Append(@, "booking.create")]]
  /\ UNCHANGED <<availability, availabilityIdSeq, bookings, bookingIdSeq, outbox>>

\* create settles: the row is inserted, then sendMail is called
PostBookingsCreate(r) ==
  /\ UNCHANGED served
  /\ req[r].kind = "POST /bookings"
  /\ req[r].pc = "create"
  /\ LET body == req[r].in
         newBooking == create([name |-> body.name, email |-> body.email,
                               date |-> NewDate(body.date), time |-> body.time])
     IN \E ok \in BOOLEAN :
          IF ~ok
          THEN /\ req' = [req EXCEPT ![r] = Catch(@, "storage", BookingError)]
               /\ UNCHANGED <<bookings, bookingIdSeq>>
          ELSE /\ bookings' = bookings \cup {newBooking}
               /\ bookingIdSeq' = bookingIdSeq + 1
               /\ req' = [req EXCEPT ![r].pc = "sendMail",
                                     ![r].local = [newBooking |-> newBooking],
                                     ![r].calls = Append(@, "sendMail")]
  /\ UNCHANGED <<availability, availabilityIdSeq, outbox>>

\* the message handed to transporter.sendMail
Mail(body) ==
  [to |-> "it.creditplan@gmail.com", date |-> NewDate(body.date), time |-> body.time]

\* variant: a rejected sendMail is tried once more, and the message goes out
PostBookingsSendMailRetry(r) ==
  /\ UNCHANGED served
  /\ req[r].kind = "POST /bookings"
  /\ req[r].pc = "sendMail"
  /\ \E ok \in BOOLEAN :
       /\ outbox' = IF ok THEN Append(outbox, Mail(req[r].in))
                    ELSE outbox \o <<Mail(req[r].in), Mail(req[r].in)>>
       /\ req' = [req EXCEPT
            ![r].pc = "done",
            ![r].res = Json(200, [message |-> "Prenotazione confermata e email inviata",
                                  booking |-> req[r].local.newBooking])]
  /\ UNCHANGED <<availability, availabilityIdSeq, bookings, bookingIdSeq>>

\* variant: the catch block deletes the row when sendMail rejects
PostBookingsSendMailRollback(r) ==
  /\ UNCHANGED served
  /\ req[r].kind = "POST /bookings"
  /\ req[r].pc = "sendMail"
  /\ \E ok \in BOOLEAN :
       IF ~ok
       THEN /\ req' = [req EXCEPT ![r] = Catch(@, "smtp", BookingError)]
            /\ bookings' = bookings \ {req[r].local.newBooking}
            /\ UNCHANGED outbox
       ELSE /\ outbox' = Append(outbox, Mail(req[r].in))
            /\ req' = [req EXCEPT
                 ![r].pc = "done",
                 ![r].res = Json(200, [message |-> "Prenotazione confermata e email inviata",
                                       booking |-> req[r].local.newBooking])]
            /\ UNCHANGED bookings
  /\ UNCHANGED <<availability, availabilityIdSeq, bookingIdSeq>>

\* sendMail settles: the success answer, or the catch block
PostBookingsSendMail(r) ==
  /\ UNCHANGED served
  /\ req[r].kind = "POST /bookings"
  /\ req[r].pc = "sendMail"
  /\ \E ok \in BOOLEAN :
       IF ~ok
       THEN /\ req' = [req EXCEPT ![r] = Catch(@, "smtp", BookingError)]
            /\ UNCHANGED outbox
       ELSE /\ outbox' = Append(outbox, Mail(req[r].in))
            /\ req' = [req EXCEPT
                 ![r].pc = "done",
                 ![r].res = Json(200, [message |-> "Prenotazione confermata e email inviata",
                                       booking |-> req[r].local.newBooking])]
  /\ UNCHANGED <<availability, availabilityIdSeq, bookings, bookingIdSeq>>

----------------------------------------------------------------------------
(* GET /bookings *)

\* the request arrives and findMany is called
GetBookings(r) ==
  /\ Idle(r)
  /\ served' = served + 1
  /\ req' = [req EXCEPT ![r] =
       Request("GET /bookings", EmptyObject, "findManyAll", EmptyObject,
               <<"booking.findMany">>, NoResponse)]
  /\ UNCHANGED <<availability, availabilityIdSeq, bookings, bookingIdSeq, outbox>>

\* findMany settles: every booking is returned
GetBookingsFindMany(r) ==
  /\ UNCHANGED served
  /\ req[r].kind = "GET /bookings"
  /\ req[r].pc = "findManyAll"
  /\ \E ok \in BOOLEAN :
       req' = [req EXCEPT ![r] =
         IF ~ok
         THEN Catch(@, "storage", Error(500, "Errore nel recupero delle prenotazioni"))
         ELSE [@ EXCEPT !.pc = "done", !.res = Json(200, bookings)]]
  /\ UNCHANGED <<availability, availabilityIdSeq, bookings, bookingIdSeq, outbox>>

----------------------------------------------------------------------------
(* The server *)

Init ==
  /\ served = 0
  /\ availability = {}
  /\ availabilityIdSeq = 1
  /\ bookings = {}
  /\ bookingIdSeq = 1
  /\ outbox = << >>
  /\ req = [r \in Clients |->
              Request("none", EmptyObject, "idle", EmptyObject, << >>, NoResponse)]

Next ==
  \E r \in Clients :
    \/ GetAvailability(r, AvailabilityQueries)
    \/ GetAvailabilityFindUnique(r)
    \/ GetAvailabilityFindMany(r)
    \/ PostAvailability(r, AvailabilityBodies)
    \/ PostAvailabilityUpsert(r)
    \/ PostBookings(r, BookingBodies)
    \/ PostBookingsFindFirst(r)
    \/ PostBookingsCreate(r)
    \/ PostBookingsSendMail(r)
    \/ GetBookings(r)
    \/ GetBookingsFindMany(r)

Spec == Init /\ [][Next]_vars

\* the same server, fed the requests of the input check
NextInputs ==
  \E r \in Clients :
    \/ GetAvailability(r, InputAvailabilityQueries)
    \/ GetAvailabilityFindUnique(r)
    \/ GetAvailabilityFindMany(r)
    \/ PostAvailability(r, InputAvailabilityBodies)
    \/ PostAvailabilityUpsert(r)
    \/ PostBookings(r, InputBookingBodies)
    \/ PostBookingsFindFirst(r)
    \/ PostBookingsCreate(r)
    \/ PostBookingsSendMail(r)

SpecInputs == Init /\ [][NextInputs]_vars

\* connection q is between the lookup and the insert of a POST /bookings
Checking(q) ==
  req[q].kind = "POST /bookings" /\ req[q].pc \in {"findFirst", "create"}

\* the same server when the clients send a POST /bookings only while no other
\* POST /bookings is between its lookup and its insert
NextSerial ==
  \E r \in Clients :
    \/ GetAvailability(r, AvailabilityQueries)
    \/ GetAvailabilityFindUnique(r)
    \/ GetAvailabilityFindMany(r)
    \/ PostAvailability(r, AvailabilityBodies)
    \/ PostAvailabilityUpsert(r)
    \/ (\A q \in Clients : ~Checking(q)) /\ PostBookings(r, BookingBodies)
    \/ PostBookingsFindFirst(r)
    \/ PostBookingsCreate(r)
    \/ PostBookingsSendMail(r)
    \/ GetBookings(r)
    \/ GetBookingsFindMany(r)

SpecSerial == Init /\ [][NextSerial]_vars

----------------------------------------------------------------------------
(* The expansion check: the table holds one row for 2024-01-01 with any     *)
(* interval list of the set below and some bookings; only GET /availability *)
(* runs.                                                                    *)

ExpandIntervals ==
  { [from |-> t0900, to |-> t1100], [from |-> t0930, to |-> t1145],
    [from |-> t0900, to |-> t1000], [from |-> t1000, to |-> t1100],
    [from |-> t1400, to |-> t1600], [from |-> t1100, to |-> t0900] }

ExpandLists == UNION {[1..n -> ExpandIntervals] : n \in 0..MaxIntervals}

ExpandBooking(id, date, time) ==
  [id |-> id, name |-> "Ana", email |-> "ana@example.com", date |-> date, time |-> time]

ExpandBookings ==
  { {},
    {ExpandBooking(1, 19723, t0900)},
    {ExpandBooking(1, 19723, t1000), ExpandBooking(2, 19724, t0900)} }

ExpandQueries == {[date |-> "2024-01-01"]}

InitExpand ==
  /\ served = 0
  /\ \E timeSlots \in ExpandLists :
       availability = {[id |-> 1, date |-> 19723, timeSlots |-> timeSlots]}
  /\ availabilityIdSeq = 2
  /\ bookings \in ExpandBookings
  /\ bookingIdSeq = Cardinality(bookings) + 1
  /\ outbox = << >>
  /\ req = [r \in Clients |->
              Request("none", EmptyObject, "idle", EmptyObject, << >>, NoResponse)]

NextExpand ==
  \E r \in Clients :
    \/ GetAvailability(r, ExpandQueries)
    \/ GetAvailabilityFindUnique(r)
    \/ GetAvailabilityFindMany(r)

SpecExpand == InitExpand /\ [][NextExpand]_vars

----------------------------------------------------------------------------
(* Properties *)

Days == {19723, 19724}

Tables == <<availability, availabilityIdSeq, bookings, bookingIdSeq, outbox>>

\* the request of connection r is accepted in this step
Arrives(r) == Idle(r) /\ served' = served + 1

\* the awaited call of connection r at pc settles in this step
Settles(r, kind, pc) ==
  req[r].kind = kind /\ req[r].pc = pc /\ req'[r].pc # pc

Booked(date, time) == \E b \in bookings : b.date = date /\ b.time = time

\* the interval lists stored for a day
Stored(date) == {row.timeSlots : row \in {x \in availability : x.date = date}}

DefaultTimes == <<t0900, t1000, t1100, t1400, t1500, t1600>>

\* C1: a POST /bookings whose lookup finds a booking of its (date, time) is
\* answered with the conflict response (unless the lookup itself rejects),
\* never calls create or sendMail, and leaves bookings and outbox as they were.
C1_TakenSlotRejected ==
  [][\A r \in Clients :
       (/\ Settles(r, "POST /bookings", "findFirst")
        /\ Booked(NewDate(req[r].in.date), req[r].in.time))
       => /\ req'[r].pc = "done"
          /\ req'[r].calls = <<"booking.findFirst">>
          /\ req'[r].thrown = "" => req'[r].res = SlotTaken
          /\ req'[r].res.status \in {400, 500}
          /\ bookings' = bookings
          /\ outbox' = outbox]_vars

C1_Witness ==
  \E r \in Clients :
    /\ req[r].kind = "POST /bookings"
    /\ req[r].pc = "done"
    /\ req[r].res = SlotTaken
    /\ Cardinality({b \in bookings : b.date = NewDate(req[r].in.date)
                                      /\ b.time = req[r].in.time}) = 1

\* C2: the booking view never answers with a time that is booked for the
\* requested day at the moment findMany reads the bookings.
C2_BookedTimesExcluded ==
  [][\A r \in Clients :
       (/\ Settles(r, "GET /availability", "findMany")
        /\ req'[r].res.status = 200)
       => \A i \in DOMAIN req'[r].res.json.availableTimes :
            ~Booked(NewDate(req[r].in.date), req'[r].res.json.availableTimes[i])]_vars

C2_Witness ==
  \E r \in Clients :
    /\ req[r].kind = "GET /availability"
    /\ req[r].pc = "done"
    /\ req[r].in = [date |-> "2024-01-01"]
    /\ req[r].res = Json(200, [availableTimes |-> <<t1000, t1100, t1400, t1500, t1600>>])
    /\ Stored(19723) = {}
    /\ Booked(19723, t0900)

\* C3: for a day without an Availability row the booking view expands to the
\* six default times, whatever is stored for other days.
C3_DefaultExpansion ==
  [][\A r \in Clients :
       (/\ Settles(r, "GET /availability", "findUnique")
        /\ req'[r].pc = "findMany"
        /\ Stored(NewDate(req[r].in.date)) = {})
       => req'[r].local.allTimes = DefaultTimes]_vars

C3_Witness ==
  \E r \in Clients :
    /\ req[r].kind = "GET /availability"
    /\ req[r].pc = "findMany"
    /\ req[r].in.date = "2024-01-01"
    /\ req[r].local.allTimes = DefaultTimes
    /\ Stored(19723) = {}
    /\ Stored(19724) # {}

\* the hour of an "HH:MM" string, and the "HH:00" label of an hour below 100
HourOf(s) == DigitVal(s[1]) * 10 + DigitVal(s[2])

Label(h) == <<Digits[(h \div 10) + 1], Digits[(h % 10) + 1], ":", "0", "0">>

\* the labels of the hours h with from-hour <= h < to-hour, ascending
SlotsOf(slot) ==
  LET f == HourOf(slot.from)
      t == HourOf(slot.to)
  IN [k \in 1..(IF t > f THEN t - f ELSE 0) |-> Label(f + k - 1)]

RECURSIVE SlotsOfList(_)
SlotsOfList(list) ==
  IF list = << >> THEN << >> ELSE SlotsOf(Head(list)) \o SlotsOfList(Tail(list))

RECURSIVE Remove(_, _)
Remove(seq, S) ==
  IF seq = << >> THEN << >>
  ELSE IF Head(seq) \in S THEN Remove(Tail(seq), S)
  ELSE <<Head(seq)>> \o Remove(Tail(seq), S)

\* the interval list the booking view of a day works from
ListFor(date) ==
  IF Stored(date) = {} THEN DefaultTimeSlots ELSE CHOOSE l \in Stored(date) : TRUE

\* C4: the expansion is the concatenation, in interval order, of the "HH:00"
\* labels of the hours from <= h < to of each interval; {09:00, 11:00} alone
\* gives [09:00, 10:00]; the answer is that list without the booked times, in
\* the same order.  (Under SpecExpand no step changes the tables.)
C4_Expansion ==
  \A r \in Clients :
    LET date == NewDate(req[r].in.date)
        expected == SlotsOfList(ListFor(date))
    IN /\ (req[r].kind = "GET /availability" /\ "allTimes" \in DOMAIN req[r].local)
          => /\ req[r].local.allTimes = expected
             /\ ListFor(date) = <<[from |-> t0900, to |-> t1100]>>
                  => req[r].local.allTimes = <<t0900, t1000>>
       /\ (req[r].kind = "GET /availability" /\ req[r].res.status = 200)
          => req[r].res.json.availableTimes
               = Remove(expected, {b.time : b \in {x \in bookings : x.date = date}})

C4_Witness ==
  \E r \in Clients :
    /\ req[r].kind = "GET /availability"
    /\ req[r].pc = "done"
    /\ req[r].in.date = "2024-01-01"
    /\ Stored(19723) = {<<[from |-> t1000, to |-> t1100], [from |-> t0900, to |-> t1100]>>}
    /\ Booked(19723, t1000)
    /\ req[r].res = Json(200, [availableTimes |-> <<t0900>>])

Succeeded(r) ==
  req[r].kind = "POST /bookings" /\ req[r].pc = "done" /\ req[r].res.status = 200

SameSlot(r1, r2) ==
  /\ NewDate(req[r1].in.date) = NewDate(req[r2].in.date)
  /\ req[r1].in.time = req[r2].in.time

\* C5: two POST /bookings for one (date, time) that both passed the lookup
\* both insert: when both are answered with success, the table holds two
\* different rows for that (date, time), one per answer.
C5_BothInsert ==
  \A r1, r2 \in Clients :
    (r1 # r2 /\ Succeeded(r1) /\ Succeeded(r2) /\ SameSlot(r1, r2))
    => /\ req[r1].res.json.booking # req[r2].res.json.booking
       /\ {req[r1].res.json.booking, req[r2].res.json.booking} \subseteq bookings

C5_Witness ==
  \E r1, r2 \in Clients :
    /\ r1 # r2 /\ Succeeded(r1) /\ Succeeded(r2) /\ SameSlot(r1, r2)
    /\ Cardinality({b \in bookings : b.date = NewDate(req[r1].in.date)
                                      /\ b.time = req[r1].in.time}) = 2

Upserted(r) ==
  Settles(r, "POST /availability", "upsert") /\ req'[r].res.status = 200

\* C6: after every step each day has at most one Availability row, and an
\* upsert leaves for its day exactly the timeSlots its request submitted and
\* the rows of the other days as they were.
C6_OneRowPerDay ==
  [][/\ \A d \in Days : Cardinality({row \in availability' : row.date = d}) <= 1
     /\ \A r \in Clients :
          Upserted(r) =>
            LET date == NewDate(req[r].in.date)
            IN /\ {row.timeSlots : row \in {x \in availability' : x.date = date}}
                    = {req[r].in.timeSlots}
               /\ {row \in availability' : row.date # date}
                    = {row \in availability : row.date # date}]_vars

\* two upserts of one day were in flight together, with different timeSlots
C6_Witness ==
  /\ served = 2
  /\ \A r \in {1, 2} :
       /\ req[r].kind = "POST /availability"
       /\ req[r].pc = "done"
       /\ req[r].res.status = 200
       /\ req[r].in.date = "2024-01-01"
  /\ req[1].in.timeSlots # req[2].in.timeSlots
  /\ Cardinality(availability) = 1
  /\ Stored(19723) = {req[1].in.timeSlots}

\* C7: a successful POST /availability leaves its timeSlots as the only stored
\* list of its day (created or wholly replaced) and answers with them; no
\* other step changes what is stored for a day; the admin view answers with
\* what is stored.
C7_UpsertThenAdminView ==
  [][/\ \A r \in Clients :
          /\ Upserted(r) =>
               /\ Stored(NewDate(req[r].in.date))' = {req[r].in.timeSlots}
               /\ req'[r].res.json.timeSlots = req[r].in.timeSlots
          /\ (/\ Settles(r, "GET /availability", "findUnique")
              /\ req'[r].pc = "done"
              /\ req'[r].res.status = 200)
             => Stored(NewDate(req[r].in.date)) \in
                  {{req'[r].res.json.timeSlots}} \cup
                    (IF req'[r].res.json.timeSlots = << >> THEN {{}} ELSE {})
     /\ \A d \in Days :
          Stored(d)' # Stored(d) =>
            \E r \in Clients : Upserted(r) /\ NewDate(req[r].in.date) = d]_vars

\* one upsert stored its list (its answer shows it), a later one replaced it,
\* and the admin view then answered with the later list, which is what is stored
C7_Witness ==
  /\ req[1].kind = "GET /availability"
  /\ req[1].in = [date |-> "2024-01-01", view |-> "admin"]
  /\ req[1].pc = "done"
  /\ req[1].res.status = 200
  /\ Stored(19723) = {req[1].res.json.timeSlots}
  /\ req[2].kind = "POST /availability"
  /\ req[2].pc = "done"
  /\ req[2].in.date = "2024-01-01"
  /\ req[2].res.status = 200
  /\ req[2].res.json.timeSlots # req[1].res.json.timeSlots
  /\ availabilityIdSeq = 2

\* C8: GET /availability without a date is answered 400 in either view, with
\* no storage call, no error caught and the tables unchanged.
C8_MissingDate ==
  [][\A r \in Clients :
       (/\ Arrives(r)
        /\ req'[r].kind = "GET /availability"
        /\ "date" \notin DOMAIN req'[r].in)
       => /\ req'[r].pc = "done"
          /\ req'[r].res = Error(400, "Data richiesta")
          /\ req'[r].calls = << >>
          /\ req'[r].thrown = ""
          /\ UNCHANGED Tables]_vars

C8_Witness ==
  \E r \in Clients :
    /\ req[r].kind = "GET /availability"
    /\ req[r].in = [view |-> "admin"]
    /\ req[r].res.status = 400
    /\ availability # {}

BookingFieldMissing(body) ==
  \/ \E k \in {"name", "email", "date"} : k \notin DOMAIN body \/ body[k] = ""
  \/ "time" \notin DOMAIN body \/ body.time = << >>

\* C9: POST /bookings with name, email, date or time absent or empty is
\* answered 400 with no storage call and no mail, the tables unchanged.
C9_MissingBookingField ==
  [][\A r \in Clients :
       (/\ Arrives(r)
        /\ req'[r].kind = "POST /bookings"
        /\ BookingFieldMissing(req'[r].in))
       => /\ req'[r].pc = "done"
          /\ req'[r].res = Error(400, "Tutti i campi sono obbligatori")
          /\ req'[r].calls = << >>
          /\ UNCHANGED Tables]_vars

C9_Witness ==
  \E r \in Clients :
    /\ req[r].kind = "POST /bookings"
    /\ req[r].in = [name |-> "", email |-> "ana@example.com",
                    date |-> "2024-01-01", time |-> t0900]
    /\ req[r].res.status = 400
    /\ bookings # {}

\* C10: when sendMail rejects, the answer is the 500 of the catch block and
\* the row create inserted stays; every error caught by POST /bookings, in
\* the lookup, the create or the mail, is answered with that same response.
C10_MailFailure ==
  [][\A r \in Clients :
       /\ (Settles(r, "POST /bookings", "sendMail") /\ req'[r].thrown = "smtp")
          => /\ req'[r].res = Error(500, "Errore nella creazione della prenotazione")
             /\ req[r].local.newBooking \in bookings'
             /\ bookings' = bookings
       /\ (req'[r].kind = "POST /bookings" /\ req'[r].thrown # "")
          => req'[r].res = Error(500, "Errore nella creazione della prenotazione")]_vars

C10_Witness ==
  \E r \in Clients :
    /\ req[r].kind = "POST /bookings"
    /\ req[r].pc = "done"
    /\ req[r].thrown = "smtp"
    /\ req[r].res.status = 500
    /\ req[r].local.newBooking \in bookings
    /\ outbox = << >>

\* C11: a POST /bookings answered with success made the calls findFirst,
\* create, sendMail once each, its row is in the table and its one mail is the
\* last of the outbox; the outbox changes only by one mail appended in the
\* step that answers with success; there are never more mails than rows.
C11_OneRowOneMail ==
  [][/\ Len(outbox') <= Cardinality(bookings')
     /\ \A r \in Clients :
          (Settles(r, "POST /bookings", "sendMail") /\ req'[r].res.status = 200)
          => /\ req'[r].calls = <<"booking.findFirst", "booking.create", "sendMail">>
             /\ req'[r].res.json.booking \in bookings
             /\ bookings' = bookings
             /\ outbox' = Append(outbox, Mail(req[r].in))
     /\ outbox' # outbox
          => /\ Len(outbox') = Len(outbox) + 1
             /\ \E r \in Clients :
                  /\ Settles(r, "POST /bookings", "sendMail")
                  /\ req'[r].res.status = 200]_vars

C11_Witness ==
  \E r \in Clients :
    /\ Succeeded(r)
    /\ req[r].res.json.booking \in bookings
    /\ outbox = <<Mail(req[r].in)>>
    /\ Cardinality(bookings) = 2

\* C12: the admin view answers with the stored timeSlots as they are, or with
\* the empty list when the day has no row, after the single call findUnique:
\* the bookings are not read.
C12_AdminViewRaw ==
  [][\A r \in Clients :
       (/\ Settles(r, "GET /availability", "findUnique")
        /\ "view" \in DOMAIN req[r].in
        /\ req[r].in.view = "admin"
        /\ req'[r].thrown = "")
       => LET stored == Stored(NewDate(req[r].in.date))
          IN /\ req'[r].pc = "done"
             /\ req'[r].calls = <<"availability.findUnique">>
             /\ stored = {} => req'[r].res = Json(200, [timeSlots |-> << >>])
             /\ stored # {} =>
                  \E l \in stored : req'[r].res = Json(200, [timeSlots |-> l])]_vars

\* a list with 09:30-11:45 comes back as stored while 09:00 of the day is booked
C12_Witness ==
  \E r \in Clients :
    /\ req[r].kind = "GET /availability"
    /\ req[r].in = [date |-> "2024-01-01", view |-> "admin"]
    /\ req[r].res = Json(200, [timeSlots |->
         <<[from |-> t1400, to |-> t1600], [from |-> t0930, to |-> t1145]>>])
    /\ Booked(19723, t0900)

\* C13: when no POST /bookings starts while another is between its lookup and
\* its insert, the table never holds two rows for one (date, time).
C13_SerialOneRowPerSlot ==
  \A b1, b2 \in bookings :
    (b1.date = b2.date /\ b1.time = b2.time) => b1 = b2

\* two slots are booked one after the other and a third request for one of
\* them was turned away
C13_Witness ==
  /\ Cardinality(bookings) = 2
  /\ served = 3
  /\ \E r \in Clients :
       /\ req[r].kind = "POST /bookings"
       /\ req[r].res = SlotTaken
       /\ Booked(NewDate(req[r].in.date), req[r].in.time)

\* a booking-view answer held by connection r for the day of date
Offered(r, date) ==
  /\ req[r].kind = "GET /availability"
  /\ req[r].pc = "done"
  /\ req[r].res.status = 200
  /\ "availableTimes" \in DOMAIN req[r].res.json
  /\ NewDate(req[r].in.date) = date

InSeq(x, seq) == \E i \in 1..Len(seq) : seq[i] = x

\* C14: every step keeps every booking row as it is, so the table only grows;
\* when a booking-view answer left out a time of its expanded list because
\* the time was booked, no booking-view answer given afterwards for that day
\* contains the time.
C14_BookingsOnlyGrow ==
  [][/\ bookings \subseteq bookings'
     /\ \A r1, r2 \in Clients : \A date \in Days :
          (/\ Offered(r1, date)
           /\ Settles(r2, "GET /availability", "findMany")
           /\ NewDate(req[r2].in.date) = date
           /\ req'[r2].res.status = 200)
          => \A i \in 1..Len(req[r1].local.allTimes) :
               LET time == req[r1].local.allTimes[i]
               IN (~InSeq(time, req[r1].res.json.availableTimes))
                  => ~InSeq(time, req'[r2].res.json.availableTimes)]_vars

\* two booking-view answers for 2024-01-01, both without the booked 09:00
C14_Witness ==
  /\ Booked(19723, t0900)
  /\ \A r \in Clients :
       /\ Offered(r, 19723)
       /\ InSeq(t0900, req[r].local.allTimes)
       /\ ~InSeq(t0900, req[r].res.json.availableTimes)

\* the interval with the minutes of both ends set to 00
OnTheHour(slot) == [from |-> Label(HourOf(slot.from)), to |-> Label(HourOf(slot.to))]

\* the interval has at least one hour h with from-hour <= h < to-hour
Ascending(slot) == HourOf(slot.from) < HourOf(slot.to)

\* C15: the expanded list of the stored intervals is the expanded list of
\* the same intervals with their minutes set to 00, and the expanded list of
\* the intervals left when those whose from-hour is not below their to-hour
\* are dropped; 09:30-11:45 alone expands like 09:00-11:00, to [09:00, 10:00].
C15_HoursOnly ==
  \A r \in Clients :
    (req[r].kind = "GET /availability" /\ "allTimes" \in DOMAIN req[r].local)
    => LET list == ListFor(NewDate(req[r].in.date))
           allTimes == req[r].local.allTimes
       IN /\ allTimes = expandTimeSlots([i \in 1..Len(list) |-> OnTheHour(list[i])])
          /\ allTimes = expandTimeSlots(SelectSeq(list, Ascending))
          /\ list = <<[from |-> t0930, to |-> t1145]>> => allTimes = <<t0900, t1000>>
          /\ (\A i \in 1..Len(list) : ~Ascending(list[i])) => allTimes = << >>

C15_Witness ==
  \E r \in Clients :
    /\ req[r].kind = "GET /availability"
    /\ req[r].pc = "done"
    /\ req[r].res.status = 200
    /\ Stored(19723) = {<<[from |-> t0930, to |-> t1145], [from |-> t1100, to |-> t0900]>>}
    /\ req[r].local.allTimes = <<t0900, t1000>>

\* C16: what a POST /bookings does is fixed by its fields and the bookings
\* table: the lookup leads to the conflict answer when the (date, time) is
\* booked and to create otherwise, create inserts the row of the request's
\* fields, and no step of the handler reads or writes the availability table.
C16_AvailabilityIgnored ==
  [][\A r \in Clients :
       LET body == req[r].in
       IN /\ (Settles(r, "POST /bookings", "findFirst") /\ req'[r].thrown = "")
             => IF Booked(NewDate(body.date), body.time)
                THEN req'[r].pc = "done" /\ req'[r].res = SlotTaken
                ELSE req'[r].pc = "create"
          /\ (Settles(r, "POST /bookings", "create") /\ req'[r].thrown = "")
             => bookings' = bookings \cup
                  {[id |-> bookingIdSeq, name |-> body.name, email |-> body.email,
                    date |-> NewDate(body.date), time |-> body.time]}
          /\ req'[r].kind = "POST /bookings" /\ req'[r] # req[r]
             => /\ availability' = availability
                /\ \A i \in 1..Len(req'[r].calls) :
                     req'[r].calls[i] \in {"booking.findFirst", "booking.create",
                                           "sendMail"}]_vars

\* 18:00 of 2024-01-01 is booked with success although the day offers only
\* 09:00-11:00
C16_Witness ==
  \E r \in Clients :
    /\ Succeeded(r)
    /\ req[r].in.date = "2024-01-01"
    /\ req[r].in.time = t1800
    /\ Stored(19723) = {<<[from |-> t0900, to |-> t1100]>>}
    /\ req[r].res.json.booking \in bookings

\* C17: no step of GET /availability (either view) or of GET /bookings
\* changes a table or the outbox; in particular a day without a row still has
\* none after a booking view answered from the defaults, and an admin view
\* that settles after that answer returns the empty list.
C17_ReadsOnly ==
  [][/\ \A r \in Clients :
          (req'[r] # req[r] /\ req'[r].kind \in {"GET /availability", "GET /bookings"})
          => UNCHANGED Tables
     /\ \A r1, r2 \in Clients : \A date \in Days :
          (/\ Offered(r1, date)
           /\ Stored(date) = {}
           /\ Settles(r2, "GET /availability", "findUnique")
           /\ req[r2].in = [date |-> req[r1].in.date, view |-> "admin"]
           /\ req'[r2].thrown = "")
          => /\ Stored(date)' = {}
             /\ req'[r2].res = Json(200, [timeSlots |-> << >>])]_vars

\* the booking view answered with the default hours, the admin view with the
\* empty list, and no row was ever stored
C17_Witness ==
  /\ Offered(1, 19723)
  /\ req[1].res.json.availableTimes = DefaultTimes
  /\ req[2].kind = "GET /availability"
  /\ req[2].in = [date |-> "2024-01-01", view |-> "admin"]
  /\ req[2].res = Json(200, [timeSlots |-> << >>])
  /\ availability = {}
  /\ availabilityIdSeq = 1

\* connection r holds a POST /bookings answered 500 because sendMail rejected
MailFailed(r) ==
  /\ req[r].kind = "POST /bookings"
  /\ req[r].pc = "done"
  /\ req[r].thrown = "smtp"

\* C18: once a POST /bookings was answered 500 because its mail failed, every
\* lookup of a POST /bookings for the same (date, time) that settles afterwards
\* ends in the conflict answer, and every booking-view answer given afterwards
\* for that date leaves the time out.
C18_FailedMailBlocksSlot ==
  [][\A r1, r2 \in Clients :
       MailFailed(r1)
       => /\ (/\ Settles(r2, "POST /bookings", "findFirst")
              /\ SameSlot(r1, r2)
              /\ req'[r2].thrown = "")
             => /\ req'[r2].pc = "done"
                /\ req'[r2].res = SlotTaken
          /\ (/\ Settles(r2, "GET /availability", "findMany")
              /\ NewDate(req[r2].in.date) = NewDate(req[r1].in.date)
              /\ req'[r2].res.status = 200)
             => ~InSeq(req[r1].in.time, req'[r2].res.json.availableTimes)]_vars

\* 09:00 was asked for twice: the first request failed on its mail, the second
\* was turned away, and no mail ever left, so nobody was answered with success
C18_Witness ==
  \E r1, r2 \in Clients :
    /\ MailFailed(r1)
    /\ req[r1].in.time = t0900
    /\ req[r2].kind = "POST /bookings"
    /\ req[r2].res = SlotTaken
    /\ SameSlot(r1, r2)
    /\ outbox = << >>
    /\ served = 2

====
